---------------------------- MODULE Spec2Model ----------------------------
(***************************************************************************)
(* Quad LFO (QUAD_LFO.ino): a direct-digital-synthesis oscillator bank for *)
(* an 8-bit AVR.  A timer-overflow interrupt (the tick) advances one       *)
(* 32-bit phase accumulator per channel and writes one wavetable sample    *)
(* per channel to a PWM compare register; loop() polls the sync inputs on  *)
(* every pass and, on the slow cadence, the wave switches and frequency    *)
(* pots.                                                                   *)
(*                                                                         *)
(* The machine is 8 bits wide: a 32-bit or 16-bit variable is read and     *)
(* written one byte at a time, and the interrupt can be taken between any  *)
(* two instructions of loop().  Multi-byte variables shared with the       *)
(* interrupt are therefore kept as byte tuples (least significant byte     *)
(* first) and loop()'s stores to them are one step per byte.  The          *)
(* interrupt handler itself runs with interrupts disabled and is a single  *)
(* step.                                                                   *)
(***************************************************************************)
EXTENDS Integers, Sequences, FiniteSets, TLC

VARIABLES
    tickCounter,        \* volatile byte, counts ticks
    fourMilliCounter,   \* volatile byte, counts slow ticks
    accumulator,        \* [0..3 -> 4 bytes]  phase accumulators
    tuningWord,         \* [0..4 -> 4 bytes]  slot 4 is the memory past the array
    waveform,           \* [0..4 -> pointer]  <<low byte's table, high byte's table>>
    waveNum,            \* [0..4 -> byte]     wave index of each channel
    lastSync,           \* [0..3 -> 0..1]     last level seen on each sync pin
    depth,              \* [0..1 -> 4 bytes]  two-channel sketch: CV depth
    pinState,           \* generic pin state variable
    OCR,                \* [0..3 -> byte]     OCR2A, OCR2B, OCR0A, OCR0B
    offset,             \* [0..3 -> byte]     the handler's local, per channel
    pc,                 \* loop()'s position
    i,                  \* loop()'s channel index
    stage,              \* the value loop() is in the middle of storing
    done,               \* how many of its bytes are stored already
    storeOrder,         \* build: which byte of a multi-byte store goes first
    SYNC_TRIGGER,       \* Settings.h: the level that triggers a reset
    SYNC_COMMON,        \* Settings.h: two-channel sketch, one sync input for both
    pins,               \* environment: the channels whose sync input is driven
    ticksLeft,          \* bound: ticks the run may still take
    ticks,              \* history: ticks taken so far
    sinceSlow,          \* history: ticks since the slow-tick counter last moved
    slowSince,          \* history: slow-tick increments since the update last ran
    updates,            \* history: control updates started so far
    resetDone,          \* history: channels reset and not yet ticked
    slowPeriod,         \* history: ticks between the last two slow ticks
    updateGap,          \* history: slow ticks counted up to the last update
    polled, missed,     \* history: loop() polled since the last slow tick;
                        \*          some slow tick went by unpolled
    runInit, runK,      \* history: accumulator at, and ticks since, the last
                        \*          write by loop() to the channel (-1: not kept)
    seen,               \* history: the offsets sampled in those ticks
    freq,               \* Settings.h: <<LFOn_FREQ_MIN, LFOn_FREQ_MAX>> in mHz
    pots,               \* environment: the readings a moved pot presents
    keys,               \* environment: the slots whose wave switch is operated
    reading,            \* history: the last reading of each pot (-1: not kept)
    presses             \* history: press-edges seen per switch (-1: not kept)

vars == <<tickCounter, fourMilliCounter, accumulator, tuningWord, waveform,
          waveNum, lastSync, depth, pinState, OCR, offset, pc, i, stage, done,
          storeOrder, SYNC_TRIGGER, SYNC_COMMON, pins, ticksLeft, ticks, sinceSlow,
          slowSince, updates, resetDone, slowPeriod, updateGap, polled,
          missed, runInit, runK, seen, freq, pots, keys, reading, presses>>

\* state of the two-channel sketch alone
dualOnly == <<depth, SYNC_COMMON>>

\* what no step of the program changes, apart from the build's store order
\* and the sync settings
fixed == <<freq, pots, keys>>

---------------------------------------------------------------------------
(* Program constants *)

NUM_LFO == 4
NUM_WAVES == 9
TickModulus == 125
CadenceThreshold == 25
PotMax == 1023
ClockMilli == 31372549
\* POW2TO32 = pow(2, 32), as the power of two it is
POW2TO32 == 32

(* Settings.h is not part of the sources at hand: the frequency range is   *)
(* the one of the specification's scenario, 0.1 Hz to 10 Hz, in mHz.       *)
FreqMinMilli == 100
FreqMaxMilli == 10000
DefaultRange == <<FreqMinMilli, FreqMaxMilli>>

\* other settings of <<LFOn_FREQ_MIN, LFOn_FREQ_MAX>>, each with min <= max
Ranges == {DefaultRange, <<0, FreqMaxMilli>>, <<1000, 1000>>, <<50, 50000>>,
           <<9990, 10000>>}

Channels == 0 .. (NUM_LFO - 1)
Slots == 0 .. NUM_LFO
Byte == 0 .. 255

---------------------------------------------------------------------------
(* Bounds *)

MaxTicksBoot == 3277
MaxTicksRun == 258
MaxPresses == 9
MaxTicksSync == 3

\* the channels whose sync input and frequency pot the environment moves in
\* runs from power-up; the other sync inputs are tied low, the other pots at 0
BootPins == {0}

\* readings of a pot that is moved
Readings == {0, PotMax}

\* contents of the memory that follows the arrays
PastEndBytes == {255}

\* bytes found at flash addresses that are no table's
StrayBytes == {0, 255}
PastEndWords == {<<0, 0, 0, 0>>, <<255, 255, 255, 255>>}

---------------------------------------------------------------------------
(* 32-bit unsigned arithmetic, as the 8-bit machine does it *)

Zero32 == <<0, 0, 0, 0>>

Add32NoCarry(a, b) ==
    <<(a[1] + b[1]) % 256, (a[2] + b[2]) % 256,
      (a[3] + b[3]) % 256, (a[4] + b[4]) % 256>>

\* accumulator[i] += tuningWord[i]: add, adc, adc, adc; the carry out of the
\* top byte is dropped
Add32(a, b) ==
    LET s1 == a[1] + b[1]
        s2 == a[2] + b[2] + (s1 \div 256)
        s3 == a[3] + b[3] + (s2 \div 256)
        s4 == a[4] + b[4] + (s3 \div 256)
    IN  <<s1 % 256, s2 % 256, s3 % 256, s4 % 256>>

ShiftBy16(a) == a[3]

\* accumulator[i] >> 24, narrowed to a byte
HighByte(a) == a[4]

\* the low and the high 16 bits of a 32-bit word
Lo16(w) == w[1] + 256 * w[2]
Hi16(w) == w[3] + 256 * w[4]

---------------------------------------------------------------------------
(* The tuning word of a pot reading *)

(* double is IEEE binary32 on this machine.  A value is <<m, e>>, standing   *)
(* for m * 2^e, with m = 0 or 2^23 <= m < 2^24; every operation rounds its  *)
(* exact result to the nearest such value, ties to the even mantissa.       *)

Pow2(n) == 2 ^ n

RECURSIVE BitLen(_)
BitLen(q) == IF q = 0 THEN 0 ELSE 1 + BitLen(q \div 2)

\* q * 2^e rounded to 24 significant bits; sticky: the exact value is a
\* little more than q * 2^e
F32Round(q, e, sticky) ==
    LET n == BitLen(q)
        s == n - 24
    IN  IF q = 0 THEN <<0, 0>>
        ELSE IF s <= 0 THEN <<q * Pow2(-s), e + s>>
        ELSE LET m0   == q \div Pow2(s)
                 rem  == q % Pow2(s)
                 half == Pow2(s - 1)
                 up   == rem > half \/ (rem = half /\ (sticky \/ m0 % 2 = 1))
                 m    == IF up THEN m0 + 1 ELSE m0
             IN  IF m = Pow2(24) THEN <<Pow2(23), e + s + 1>> ELSE <<m, e + s>>

RECURSIVE F32Extend(_, _, _, _)
\* long division, six more bits at a time, until the quotient has 26 bits
F32Extend(q, rem, d, e) ==
    IF q >= Pow2(25) THEN F32Round(q, e, rem # 0)
    ELSE F32Extend(64 * q + (64 * rem) \div d, (64 * rem) % d, d, e - 6)

\* the double nearest to (n / d) * 2^e, for 0 <= n < 2^31 and 0 < d < 2^24
F32Ratio(n, d, e) == IF n = 0 THEN <<0, 0>> ELSE F32Extend(n \div d, n % d, d, e)

\* (double) of an integer
F32OfInt(v) == F32Ratio(v, 1, 0)

\* a / b
F32Div(a, b) == F32Ratio(a[1], b[1], a[2] - b[2])

\* a * b: the 48-bit product of the mantissas from 12-bit halves
F32Mul(a, b) ==
    LET a1 == a[1] \div 4096
        a0 == a[1] % 4096
        b1 == b[1] \div 4096
        b0 == b[1] % 4096
        lo == a0 * b0
        t1 == a1 * b0 + a0 * b1 + (lo \div 4096)
        t2 == a1 * b1 + (t1 \div 4096)
        l1 == t1 % 4096
    IN  F32Round(64 * t2 + (l1 \div 64), a[2] + b[2] + 18,
                 l1 % 64 # 0 \/ lo % 4096 # 0)

\* a + b, both non-negative
F32Add(a, b) ==
    IF a[1] = 0 THEN b
    ELSE IF b[1] = 0 THEN a
    ELSE LET big   == IF a[2] >= b[2] THEN a ELSE b
             small == IF a[2] >= b[2] THEN b ELSE a
             diff  == big[2] - small[2]
         IN  IF diff >= 26 THEN big
             ELSE LET s4 == 4 * small[1]
                  IN  F32Round(4 * big[1] + (s4 \div Pow2(diff)), big[2] - 2,
                               s4 % Pow2(diff) # 0)

\* a - b, for a >= b >= 0
F32Sub(a, b) ==
    IF b[1] = 0 THEN a
    ELSE LET diff == a[2] - b[2]
         IN  IF diff >= 26 THEN a
             ELSE LET bh == b[1] \div Pow2(diff)
                      bl == b[1] % Pow2(diff)
                      hi == a[1] - bh - (IF bl > 0 THEN 1 ELSE 0)
                      lo == IF bl > 0 THEN Pow2(diff) - bl ELSE 0
                  IN  IF diff <= 6
                      THEN F32Round(hi * Pow2(diff) + lo, b[2], FALSE)
                      ELSE F32Round(16 * hi + ((16 * lo) \div Pow2(diff)),
                                    a[2] - 4, (16 * lo) % Pow2(diff) # 0)

\* the bytes of a value below 2^24, least significant first
Bytes32(v) == <<v % 256, (v \div 256) % 256, (v \div 65536) % 256, 0>>

\* the low 16 bits alone, as an unsigned int would keep them
F32ToU16(a) ==
    LET v == CASE a[1] = 0 \/ a[2] <= -24 -> 0
               [] a[1] # 0 /\ a[2] \in -23 .. 0 -> a[1] \div Pow2(-a[2])
    IN  Bytes32(v % 65536)

\* conversion of a double below 2^24 to unsigned long: the fraction is dropped
F32ToU32(a) ==
    LET v == CASE a[1] = 0 \/ a[2] <= -24 -> 0
               [] a[1] # 0 /\ a[2] \in -23 .. 0 -> a[1] \div Pow2(-a[2])
    IN  Bytes32(v)

\* the constants of the expression: the decimal literals as doubles
F32Clock == F32Ratio(ClockMilli, 1000, 0)
F32Milli(f) == F32Ratio(f, 1000, 0)

\* the expression without its + FREQ_MIN[i]
TuningWordNoMin(v, fmin, fmax) ==
    LET RANGE == F32Sub(F32Milli(fmax), F32Milli(fmin))
        hz    == F32Div(F32Mul(F32OfInt(v), RANGE), F32OfInt(PotMax))
        x     == F32Div(hz, F32Clock)
    IN  F32ToU32(<<x[1], x[2] + POW2TO32>>)

\* POW2TO32 * ((((double)value * FREQ_RANGE[i]) / 1023L + FREQ_MIN[i]) / clock),
\* converted to unsigned long, for a channel of FREQ_MIN fmin and FREQ_MAX
\* fmax (mHz); FREQ_RANGE[i] is LFOn_FREQ_MAX - LFOn_FREQ_MIN
TuningWord(v, fmin, fmax) ==
    LET MIN   == F32Milli(fmin)
        RANGE == F32Sub(F32Milli(fmax), MIN)
        hz    == F32Add(F32Div(F32Mul(F32OfInt(v), RANGE), F32OfInt(PotMax)), MIN)
        x     == F32Div(hz, F32Clock)
    IN  F32ToU32(<<x[1], x[2] + POW2TO32>>)

\* the tuning words of every range and reading
TuningTable ==
    [x \in Ranges \X (0 .. PotMax) |-> TuningWord(x[2], x[1][1], x[1][2])]

\* the tuning word of reading r under the range in force
TuningWordOf(r) == TuningTable[<<freq, r>>]

\* analogRead of channel c's pot: what value() can return
ReadingsAt(c, moved) == IF c \in moved THEN pots ELSE {0}

---------------------------------------------------------------------------
(* The wavetable library *)

(* wave/*.h are not part of the sources at hand.  The nine tables are      *)
(* stood for by 256-entry tables of the shapes their names give:           *)
(* sine, ramp, saw, tri, pulse8, pulse16, pulse64, sq, noise.              *)
WaveByte(k, off) ==
    CASE k = 0 -> IF off < 128 THEN 128 + (off * (128 - off)) \div 33
                  ELSE 127 - ((off - 128) * (256 - off)) \div 33
      [] k = 1 -> off
      [] k = 2 -> 255 - off
      [] k = 3 -> IF off < 128 THEN 2 * off ELSE 2 * (255 - off) + 1
      [] k = 4 -> IF off < 8 THEN 255 ELSE 0
      [] k = 5 -> IF off < 16 THEN 255 ELSE 0
      [] k = 6 -> IF off < 64 THEN 255 ELSE 0
      [] k = 7 -> IF off < 128 THEN 255 ELSE 0
      [] OTHER -> (off * 37 + 11) % 256

\* (byte*)waveTable[k]: both bytes of the pointer are those of table k's address
TablePtr(k) == <<k, k>>

\* the tables a pointer can stand for; a pointer whose two bytes come from
\* two different tables' addresses need not point into any table
IsTablePtr(p) == p[1] = p[2]

\* the tuning word 2^24: one period every 256 ticks
OnePeriodIn256 == <<0, 0, 0, 1>>

\* accumulators and tuning words that runs from the middle of operation start with
AccSeeds == {Zero32, <<255, 255, 255, 255>>, <<1, 128, 255, 127>>}
TwSeeds == {OnePeriodIn256, TuningTable[<<DefaultRange, PotMax>>],
            <<255, 255, 255, 255>>}

---------------------------------------------------------------------------
(* Positions of loop(), of the four-channel and of the two-channel sketch *)

QuadPcs == {"sync", "syncStore", "cadence", "cadenceReset", "wave",
            "waveStore", "freq", "freqStore"}
DualPcs == {"d.sync1", "d.storeA", "d.storeB", "d.sync2", "d.cadence",
            "d.cadenceReset", "d.wave", "d.waveStore", "d.freq",
            "d.freqStore", "d.depth", "d.depthStore"}

---------------------------------------------------------------------------
(* Multi-byte stores by loop() *)

\* the byte (1..n) that the k-th store instruction (k = 0..n-1) writes
ByteAt(order, n, k) == IF order = "lsb" THEN k + 1 ELSE n - k

---------------------------------------------------------------------------
(* Initial states *)

\* the settings and the environment of the runs from power-up, and the
\* histories that only some runs keep
SettingsInit ==
    /\ freq = DefaultRange
    /\ pots = Readings
    /\ keys = Slots
    /\ reading = [c \in Slots |-> -1]
    /\ presses = [c \in Slots |-> -1]

HistoryInit ==
    /\ ticks = 0
    /\ sinceSlow = -1
    /\ slowPeriod = 0
    /\ slowSince = 0
    /\ updateGap = 0
    /\ updates = 0
    /\ polled = TRUE
    /\ missed = FALSE
    /\ resetDone = {}

\* setup(): statics are zero, every channel is on table 0, lastSync holds the
\* level read from each sync pin
Init ==
    /\ tickCounter = 0
    /\ fourMilliCounter = 0
    /\ accumulator = [c \in Channels |-> Zero32]
    /\ tuningWord = [c \in Slots |-> Zero32]
    /\ waveform = [c \in Slots |-> TablePtr(0)]
    /\ \E g \in PastEndBytes :
          waveNum = [c \in Slots |-> IF c < NUM_LFO THEN 0 ELSE g]
    /\ pins = BootPins
    /\ \E lv \in [BootPins -> 0 .. 1] :
          lastSync = [c \in Channels |-> IF c \in BootPins THEN lv[c] ELSE 0]
    /\ pinState = 0
    /\ OCR = [c \in Channels |-> 0]
    /\ offset = [c \in Channels |-> 0]
    /\ pc = "sync"
    /\ i = 0
    /\ stage = Zero32
    /\ done = 0
    /\ storeOrder = "lsb"
    /\ SYNC_TRIGGER = 1
    /\ ticksLeft = MaxTicksBoot
    /\ depth = [c \in 0 .. 1 |-> Zero32]
    /\ SYNC_COMMON = FALSE
    /\ SettingsInit
    /\ HistoryInit
    /\ runInit = [c \in Channels |-> Zero32]
    /\ runK = [c \in Channels |-> -1]
    /\ seen = [c \in Channels |-> {}]

---------------------------------------------------------------------------
(* loop(): the sync inputs, polled on every pass *)

SyncNext ==
    IF i + 1 < NUM_LFO
    THEN /\ pc' = "sync"
         /\ i' = i + 1
    ELSE /\ pc' = "cadence"
         /\ i' = 0

SyncPollAnyEdge ==
    /\ pc = "sync"
    /\ \E level \in (IF i \in pins THEN 0 .. 1 ELSE {lastSync[i]}) :
          /\ pinState' = level
          /\ IF level # lastSync[i]
             THEN /\ lastSync' = [lastSync EXCEPT ![i] = level]
                  /\ IF level \in 0 .. 1
                     THEN /\ pc' = "syncStore"
                          /\ i' = i
                          /\ stage' = Zero32
                          /\ done' = 0
                     ELSE /\ SyncNext
                          /\ UNCHANGED <<stage, done>>
             ELSE /\ SyncNext
                  /\ UNCHANGED <<lastSync, stage, done>>
    /\ UNCHANGED <<dualOnly, fixed, reading, presses>>
    /\ UNCHANGED <<tickCounter, fourMilliCounter, accumulator, tuningWord,
                   waveform, waveNum, OCR, offset, storeOrder, SYNC_TRIGGER,
                   pins, ticksLeft, ticks, sinceSlow, slowSince, updates,
                   resetDone, slowPeriod, updateGap, polled, missed, runInit,
                   runK, seen>>

\* pinState = digitalRead(SYNC_PIN[i]); if (pinState != lastSync[i]) { ... }
\* up to, not including, the store accumulator[i] = 0
SyncPoll ==
    /\ pc = "sync"
    /\ \E level \in (IF i \in pins THEN 0 .. 1 ELSE {lastSync[i]}) :
          /\ pinState' = level
          /\ IF level # lastSync[i]
             THEN /\ lastSync' = [lastSync EXCEPT ![i] = level]
                  /\ IF level = SYNC_TRIGGER
                     THEN /\ pc' = "syncStore"
                          /\ i' = i
                          /\ stage' = Zero32
                          /\ done' = 0
                     ELSE /\ SyncNext
                          /\ UNCHANGED <<stage, done>>
             ELSE /\ SyncNext
                  /\ UNCHANGED <<lastSync, stage, done>>
    /\ UNCHANGED <<dualOnly, fixed, reading, presses>>
    /\ UNCHANGED <<tickCounter, fourMilliCounter, accumulator, tuningWord,
                   waveform, waveNum, OCR, offset, storeOrder, SYNC_TRIGGER,
                   pins, ticksLeft, ticks, sinceSlow, slowSince, updates,
                   resetDone, slowPeriod, updateGap, polled, missed, runInit,
                   runK, seen>>

\* accumulator[i] = 0: one of the four byte stores
SyncStoreByte ==
    /\ pc = "syncStore"
    /\ LET b   == ByteAt(storeOrder, 4, done)
           acc == [accumulator[i] EXCEPT ![b] = stage[b]]
       IN  /\ accumulator' = [accumulator EXCEPT ![i] = acc]
           /\ IF runK[i] >= 0
              THEN /\ runInit' = [runInit EXCEPT ![i] = acc]
                   /\ runK' = [runK EXCEPT ![i] = 0]
                   /\ seen' = [seen EXCEPT ![i] = {}]
              ELSE UNCHANGED <<runInit, runK, seen>>
    /\ done' = done + 1
    /\ IF done + 1 = 4
       THEN /\ SyncNext
            /\ resetDone' = resetDone \cup {i}
       ELSE /\ UNCHANGED <<pc, i, resetDone>>
    /\ UNCHANGED <<dualOnly, fixed, reading, presses>>
    /\ UNCHANGED <<tickCounter, fourMilliCounter, tuningWord, waveform,
                   waveNum, lastSync, pinState, OCR, offset, stage,
                   storeOrder, SYNC_TRIGGER, pins, ticksLeft, ticks, sinceSlow,
                   slowSince, updates, slowPeriod, updateGap, polled, missed>>

---------------------------------------------------------------------------
(* loop(): the control cadence *)

\* if (fourMilliCounter > 25)
CadenceCheck ==
    /\ pc = "cadence"
    /\ IF fourMilliCounter > CadenceThreshold
       THEN pc' = "cadenceReset"
       ELSE pc' = "sync"
    /\ i' = 0
    /\ polled' = TRUE
    /\ UNCHANGED <<dualOnly, fixed, reading, presses>>
    /\ UNCHANGED <<tickCounter, fourMilliCounter, accumulator, tuningWord,
                   waveform, waveNum, lastSync, pinState, OCR, offset, stage,
                   done, storeOrder, SYNC_TRIGGER, pins, ticksLeft, ticks,
                   sinceSlow, slowSince, updates, resetDone, slowPeriod,
                   updateGap, missed, runInit, runK, seen>>

CadenceResetBoth ==
    /\ pc = "cadenceReset"
    /\ fourMilliCounter' = 0
    /\ tickCounter' = 0
    /\ pc' = "wave"
    /\ i' = 0
    /\ updateGap' = slowSince
    /\ slowSince' = IF slowSince >= 0 THEN 0 ELSE slowSince
    /\ updates' = IF updates >= 0 THEN updates + 1 ELSE updates
    /\ UNCHANGED <<dualOnly, fixed, reading, presses>>
    /\ UNCHANGED <<accumulator, tuningWord, waveform, waveNum, lastSync,
                   pinState, OCR, offset, stage, done, storeOrder,
                   SYNC_TRIGGER, pins, ticksLeft, ticks, sinceSlow, resetDone,
                   slowPeriod, polled, missed, runInit, runK, seen>>

\* fourMilliCounter = 0
CadenceReset ==
    /\ pc = "cadenceReset"
    /\ fourMilliCounter' = 0
    /\ pc' = "wave"
    /\ i' = 0
    /\ updateGap' = slowSince
    /\ slowSince' = IF slowSince >= 0 THEN 0 ELSE slowSince
    /\ updates' = IF updates >= 0 THEN updates + 1 ELSE updates
    /\ UNCHANGED <<dualOnly, fixed, reading, presses>>
    /\ UNCHANGED <<tickCounter, accumulator, tuningWord, waveform, waveNum,
                   lastSync, pinState, OCR, offset, stage, done, storeOrder,
                   SYNC_TRIGGER, pins, ticksLeft, ticks, sinceSlow, resetDone,
                   slowPeriod, polled, missed, runInit, runK, seen>>

---------------------------------------------------------------------------
(* loop(): the control update, for (byte i=0; i<=NUM_LFO; i+=1) *)

\* the last channel index the update's for statement lets through
UpdateLast == NUM_LFO

\* what stateDebounced() and changed() of slot c's switch can return: a
\* switch nobody operates stays released and unchanged, and a run that
\* counts the press-edges of a switch ends with the MaxPresses-th
SwitchStates(c) == IF c \in keys THEN 0 .. 1 ELSE {0}
SwitchChanged(c) ==
    IF c \in keys /\ presses[c] < MaxPresses THEN BOOLEAN ELSE {FALSE}

NextWaveBy2(n) == (n + 2) % NUM_WAVES

\* (waveNum[i] + 1) % NUM_WAVES
NextWave(n) == (n + 1) % NUM_WAVES

WaveSwitchAnyChange ==
    /\ pc = "wave"
    /\ \E st \in SwitchStates(i), ch \in SwitchChanged(i) :
          /\ pinState' = st
          /\ presses' = IF ch /\ st = 1 /\ presses[i] >= 0
                        THEN [presses EXCEPT ![i] = presses[i] + 1]
                        ELSE presses
          /\ IF ch
             THEN LET n == NextWave(waveNum[i])
                  IN  /\ waveNum' = [waveNum EXCEPT ![i] = n]
                      /\ stage' = TablePtr(n)
                      /\ done' = 0
                      /\ pc' = "waveStore"
             ELSE /\ pc' = "freq"
                  /\ UNCHANGED <<waveNum, stage, done>>
    /\ UNCHANGED <<dualOnly, fixed, reading>>
    /\ UNCHANGED <<tickCounter, fourMilliCounter, accumulator, tuningWord,
                   waveform, lastSync, OCR, offset, i, storeOrder,
                   SYNC_TRIGGER, pins, ticksLeft, ticks, sinceSlow, slowSince,
                   updates, resetDone, slowPeriod, updateGap, polled, missed,
                   runInit, runK, seen>>

\* pinState = waveCtrl[i].stateDebounced(); if (waveCtrl[i].changed()) ...
\* up to, not including, the store to waveform[i]
WaveSwitch ==
    /\ pc = "wave"
    /\ \E st \in SwitchStates(i), ch \in SwitchChanged(i) :
          /\ pinState' = st
          /\ presses' = IF ch /\ st = 1 /\ presses[i] >= 0
                        THEN [presses EXCEPT ![i] = presses[i] + 1]
                        ELSE presses
          /\ IF ch /\ st = 1
             THEN LET n == NextWave(waveNum[i])
                  IN  /\ waveNum' = [waveNum EXCEPT ![i] = n]
                      /\ stage' = TablePtr(n)
                      /\ done' = 0
                      /\ pc' = "waveStore"
             ELSE /\ pc' = "freq"
                  /\ UNCHANGED <<waveNum, stage, done>>
    /\ UNCHANGED <<dualOnly, fixed, reading>>
    /\ UNCHANGED <<tickCounter, fourMilliCounter, accumulator, tuningWord,
                   waveform, lastSync, OCR, offset, i, storeOrder,
                   SYNC_TRIGGER, pins, ticksLeft, ticks, sinceSlow, slowSince,
                   updates, resetDone, slowPeriod, updateGap, polled, missed,
                   runInit, runK, seen>>

\* waveform[i] = (byte*)waveTable[waveNum[i]]: one of the two byte stores
WaveformStoreByte ==
    /\ pc = "waveStore"
    /\ LET b == ByteAt(storeOrder, 2, done)
       IN  waveform' = [waveform EXCEPT ![i][b] = stage[b]]
    /\ done' = done + 1
    /\ pc' = IF done + 1 = 2 THEN "freq" ELSE pc
    /\ UNCHANGED <<dualOnly, fixed, reading, presses>>
    /\ UNCHANGED <<tickCounter, fourMilliCounter, accumulator, tuningWord,
                   waveNum, lastSync, pinState, OCR, offset, i, stage,
                   storeOrder, SYNC_TRIGGER, pins, ticksLeft, ticks, sinceSlow,
                   slowSince, updates, resetDone, slowPeriod, updateGap,
                   polled, missed, runInit, runK, seen>>

\* the right-hand side of tuningWord[i] = POW2TO32 * (...); for the slot past
\* the arrays the operands are whatever lies there
FreqCompute ==
    /\ pc = "freq"
    /\ \E r \in ReadingsAt(i, pins), g \in PastEndWords :
          /\ stage' = IF i < NUM_LFO THEN TuningWordOf(r) ELSE g
          /\ reading' = IF reading[i] >= 0 THEN [reading EXCEPT ![i] = r]
                        ELSE reading
    /\ done' = 0
    /\ pc' = "freqStore"
    /\ UNCHANGED <<dualOnly, fixed, presses>>
    /\ UNCHANGED <<tickCounter, fourMilliCounter, accumulator, tuningWord,
                   waveform, waveNum, lastSync, pinState, OCR, offset, i,
                   storeOrder, SYNC_TRIGGER, pins, ticksLeft, ticks, sinceSlow,
                   slowSince, updates, resetDone, slowPeriod, updateGap,
                   polled, missed, runInit, runK, seen>>

\* tuningWord[i] = ...: one of the four byte stores
TuningStoreByte ==
    /\ pc = "freqStore"
    /\ LET b == ByteAt(storeOrder, 4, done)
       IN  tuningWord' = [tuningWord EXCEPT ![i][b] = stage[b]]
    /\ done' = done + 1
    /\ IF i < NUM_LFO /\ runK[i] >= 0
       THEN /\ runInit' = [runInit EXCEPT ![i] = accumulator[i]]
            /\ runK' = [runK EXCEPT ![i] = 0]
            /\ seen' = [seen EXCEPT ![i] = {}]
       ELSE UNCHANGED <<runInit, runK, seen>>
    /\ IF done + 1 = 4
       THEN IF i + 1 <= UpdateLast
            THEN /\ pc' = "wave"
                 /\ i' = i + 1
            ELSE /\ pc' = "sync"
                 /\ i' = 0
       ELSE UNCHANGED <<pc, i>>
    /\ UNCHANGED <<dualOnly, fixed, reading, presses>>
    /\ UNCHANGED <<tickCounter, fourMilliCounter, accumulator, waveform,
                   waveNum, lastSync, pinState, OCR, offset, stage,
                   storeOrder, SYNC_TRIGGER, pins, ticksLeft, ticks, sinceSlow,
                   slowSince, updates, resetDone, slowPeriod, updateGap,
                   polled, missed>>

---------------------------------------------------------------------------
(* ISR(TIMER2_OVF_vect): the tick *)

\* if (tickCounter++ == 125) { fourMilliCounter++; tickCounter = 0; }
TickWraps(t) == t = TickModulus

\* the byte pgm_read_byte_near(waveform[c] + offset) returns; g is what lies
\* at an address that is no table's
Sample(p, off, g) == IF IsTablePtr(p) THEN WaveByte(p[1], off) ELSE g

\* the count every four milliseconds, and the bound and history of ticks
TickCount ==
    /\ ticksLeft # 0
    /\ ticksLeft' = IF ticksLeft > 0 THEN ticksLeft - 1 ELSE ticksLeft
    /\ ticks' = IF ticks >= 0 THEN ticks + 1 ELSE ticks
    /\ IF TickWraps(tickCounter)
       THEN /\ fourMilliCounter' = (fourMilliCounter + 1) % 256
            /\ tickCounter' = 0
            /\ slowPeriod' = IF sinceSlow >= 0 THEN sinceSlow + 1 ELSE slowPeriod
            /\ sinceSlow' = 0
            /\ slowSince' = IF slowSince >= 0 THEN slowSince + 1 ELSE slowSince
            /\ missed' = (missed \/ ~polled)
            /\ polled' = FALSE
       ELSE /\ tickCounter' = (tickCounter + 1) % 256
            /\ sinceSlow' = IF sinceSlow >= 0 THEN sinceSlow + 1 ELSE sinceSlow
            /\ UNCHANGED <<fourMilliCounter, slowPeriod, slowSince, missed,
                           polled>>

TIMER2_OVF_vect ==
    /\ pc \in QuadPcs
    /\ TickCount
    /\ accumulator' = [c \in Channels |-> Add32(accumulator[c], tuningWord[c])]
    /\ offset' = [c \in Channels |-> HighByte(accumulator'[c])]
    /\ \E g \in (IF \A c \in Channels : IsTablePtr(waveform[c])
                 THEN {0} ELSE StrayBytes) :
          OCR' = [c \in Channels |-> Sample(waveform[c], offset'[c], g)]
    /\ resetDone' = {}
    /\ runK' = [c \in Channels |-> IF runK[c] >= 0 THEN runK[c] + 1 ELSE runK[c]]
    /\ seen' = [c \in Channels |->
                  IF runK[c] >= 0 THEN seen[c] \cup {offset'[c]} ELSE seen[c]]
    /\ UNCHANGED <<dualOnly, fixed, reading, presses>>
    /\ UNCHANGED <<tuningWord, waveform, waveNum, lastSync, pinState, pc, i,
                   stage, done, storeOrder, SYNC_TRIGGER, pins, updates,
                   updateGap, runInit>>

---------------------------------------------------------------------------
(* The program *)

Next ==
    \/ TIMER2_OVF_vect
    \/ SyncPoll
    \/ SyncStoreByte
    \/ CadenceCheck
    \/ CadenceReset
    \/ WaveSwitch
    \/ WaveformStoreByte
    \/ FreqCompute
    \/ TuningStoreByte

Spec == Init /\ [][Next]_vars

---------------------------------------------------------------------------
(* The two-channel sketch.  Its channels are channels 0 and 1 of the state: *)
(* accumulatorA/B are accumulator[0..1], LFOn_TuningWord tuningWord[0..1],  *)
(* LFOn_WaveTable waveform[0..1], LFOn_WaveNum waveNum[0..1], lastSYNC1/2   *)
(* lastSync[0..1], LFOn_Depth depth[0..1], OCR2A/B OCR[0..1].               *)

config == <<storeOrder, SYNC_TRIGGER, SYNC_COMMON, pins, freq, pots, keys>>
cadenceHistory == <<sinceSlow, slowSince, slowPeriod, updateGap, updates,
                    polled, missed>>
runHistory == <<runInit, runK, seen>>

\* a write by loop() to channel c restarts the run-length history of c
StoreRun(c, acc) ==
    IF runK[c] >= 0
    THEN /\ runInit' = [runInit EXCEPT ![c] = acc]
         /\ runK' = [runK EXCEPT ![c] = 0]
         /\ seen' = [seen EXCEPT ![c] = {}]
    ELSE UNCHANGED runHistory

\* pinState = digitalRead(SYNC1_PIN); if (pinState != lastSYNC1) { ... }
\* up to, not including, the store accumulatorA = 0
DualSync1Poll ==
    /\ pc = "d.sync1"
    /\ \E level \in (IF 0 \in pins THEN 0 .. 1 ELSE {lastSync[0]}) :
          /\ pinState' = level
          /\ IF level # lastSync[0]
             THEN /\ lastSync' = [lastSync EXCEPT ![0] = level]
                  /\ IF level = SYNC_TRIGGER
                     THEN pc' = "d.storeA"
                     ELSE pc' = IF SYNC_COMMON THEN "d.cadence" ELSE "d.sync2"
             ELSE /\ pc' = IF SYNC_COMMON THEN "d.cadence" ELSE "d.sync2"
                  /\ UNCHANGED lastSync
    /\ i' = 0
    /\ stage' = Zero32
    /\ done' = 0
    /\ UNCHANGED <<tickCounter, fourMilliCounter, accumulator, tuningWord,
                   waveform, waveNum, depth, OCR, offset, ticksLeft, ticks,
                   resetDone>>
    /\ UNCHANGED <<config, cadenceHistory, runHistory>>
    /\ UNCHANGED <<reading, presses>>

\* accumulatorA = 0: one of the four byte stores; with SYNC_COMMON the store
\* accumulatorB = 0 follows
DualStoreA ==
    /\ pc = "d.storeA"
    /\ LET b   == ByteAt(storeOrder, 4, done)
           acc == [accumulator[0] EXCEPT ![b] = stage[b]]
       IN  /\ accumulator' = [accumulator EXCEPT ![0] = acc]
           /\ StoreRun(0, acc)
    /\ IF done + 1 = 4
       THEN /\ done' = 0
            /\ pc' = IF SYNC_COMMON THEN "d.storeB" ELSE "d.sync2"
            /\ i' = IF SYNC_COMMON THEN 1 ELSE 0
            /\ resetDone' = resetDone \cup {0}
       ELSE /\ done' = done + 1
            /\ UNCHANGED <<pc, i, resetDone>>
    /\ UNCHANGED <<tickCounter, fourMilliCounter, tuningWord, waveform,
                   waveNum, lastSync, depth, pinState, OCR, offset, stage,
                   ticksLeft, ticks>>
    /\ UNCHANGED <<config, cadenceHistory>>
    /\ UNCHANGED <<reading, presses>>

\* pinState = digitalRead(SYNC2_PIN); if (pinState != lastSYNC2) { ... }
\* up to, not including, the store accumulatorB = 0; compiled without SYNC_COMMON
DualSync2Poll ==
    /\ pc = "d.sync2"
    /\ \E level \in (IF 1 \in pins THEN 0 .. 1 ELSE {lastSync[1]}) :
          /\ pinState' = level
          /\ IF level # lastSync[1]
             THEN /\ lastSync' = [lastSync EXCEPT ![1] = level]
                  /\ pc' = IF level = SYNC_TRIGGER THEN "d.storeB" ELSE "d.cadence"
             ELSE /\ pc' = "d.cadence"
                  /\ UNCHANGED lastSync
    /\ i' = 1
    /\ stage' = Zero32
    /\ done' = 0
    /\ UNCHANGED <<tickCounter, fourMilliCounter, accumulator, tuningWord,
                   waveform, waveNum, depth, OCR, offset, ticksLeft, ticks,
                   resetDone>>
    /\ UNCHANGED <<config, cadenceHistory, runHistory>>
    /\ UNCHANGED <<reading, presses>>

\* accumulatorB = 0: one of the four byte stores
DualStoreB ==
    /\ pc = "d.storeB"
    /\ LET b   == ByteAt(storeOrder, 4, done)
           acc == [accumulator[1] EXCEPT ![b] = stage[b]]
       IN  /\ accumulator' = [accumulator EXCEPT ![1] = acc]
           /\ StoreRun(1, acc)
    /\ IF done + 1 = 4
       THEN /\ done' = 0
            /\ pc' = "d.cadence"
            /\ resetDone' = IF SYNC_COMMON THEN {0, 1} ELSE resetDone \cup {1}
       ELSE /\ done' = done + 1
            /\ UNCHANGED <<pc, resetDone>>
    /\ UNCHANGED <<tickCounter, fourMilliCounter, tuningWord, waveform,
                   waveNum, lastSync, depth, pinState, OCR, offset, i, stage,
                   ticksLeft, ticks>>
    /\ UNCHANGED <<config, cadenceHistory>>
    /\ UNCHANGED <<reading, presses>>

\* if (fourMilliCounter > 25)
DualCadenceCheck ==
    /\ pc = "d.cadence"
    /\ IF fourMilliCounter > CadenceThreshold
       THEN pc' = "d.cadenceReset"
       ELSE pc' = "d.sync1"
    /\ polled' = TRUE
    /\ UNCHANGED <<tickCounter, fourMilliCounter, accumulator, tuningWord,
                   waveform, waveNum, lastSync, depth, pinState, OCR, offset,
                   i, stage, done, ticksLeft, ticks, resetDone>>
    /\ UNCHANGED <<config, runHistory, sinceSlow, slowSince, slowPeriod,
                   updateGap, updates, missed>>
    /\ UNCHANGED <<reading, presses>>

\* fourMilliCounter = 0
DualCadenceReset ==
    /\ pc = "d.cadenceReset"
    /\ fourMilliCounter' = 0
    /\ pc' = "d.wave"
    /\ i' = 0
    /\ updateGap' = slowSince
    /\ slowSince' = IF slowSince >= 0 THEN 0 ELSE slowSince
    /\ updates' = IF updates >= 0 THEN updates + 1 ELSE updates
    /\ UNCHANGED <<tickCounter, accumulator, tuningWord, waveform, waveNum,
                   lastSync, depth, pinState, OCR, offset, stage, done,
                   ticksLeft, ticks, resetDone>>
    /\ UNCHANGED <<config, runHistory, sinceSlow, slowPeriod, polled, missed>>
    /\ UNCHANGED <<reading, presses>>

\* pinState = LFOn_WaveSwitch.stateDebounced(); if (LFOn_WaveSwitch.changed())
\* ... up to, not including, the store to LFOn_WaveTable; both switches come
\* before the first frequency control
DualWaveSwitch ==
    /\ pc = "d.wave"
    /\ \E st \in SwitchStates(i), ch \in SwitchChanged(i) :
          /\ pinState' = st
          /\ presses' = IF ch /\ st = 1 /\ presses[i] >= 0
                        THEN [presses EXCEPT ![i] = presses[i] + 1]
                        ELSE presses
          /\ IF ch /\ st = 1
             THEN LET n == NextWave(waveNum[i])
                  IN  /\ waveNum' = [waveNum EXCEPT ![i] = n]
                      /\ stage' = TablePtr(n)
                      /\ done' = 0
                      /\ pc' = "d.waveStore"
                      /\ i' = i
             ELSE /\ pc' = IF i = 0 THEN "d.wave" ELSE "d.freq"
                  /\ i' = IF i = 0 THEN 1 ELSE 0
                  /\ UNCHANGED <<waveNum, stage, done>>
    /\ UNCHANGED <<tickCounter, fourMilliCounter, accumulator, tuningWord,
                   waveform, lastSync, depth, OCR, offset, ticksLeft, ticks,
                   resetDone>>
    /\ UNCHANGED <<config, cadenceHistory, runHistory>>
    /\ UNCHANGED <<reading>>

\* LFOn_WaveTable = (byte*)waveTables[LFOn_WaveNum]: one of the two byte stores
DualWaveformStoreByte ==
    /\ pc = "d.waveStore"
    /\ LET b == ByteAt(storeOrder, 2, done)
       IN  waveform' = [waveform EXCEPT ![i][b] = stage[b]]
    /\ done' = done + 1
    /\ IF done + 1 = 2
       THEN /\ pc' = IF i = 0 THEN "d.wave" ELSE "d.freq"
            /\ i' = IF i = 0 THEN 1 ELSE 0
       ELSE UNCHANGED <<pc, i>>
    /\ UNCHANGED <<tickCounter, fourMilliCounter, accumulator, tuningWord,
                   waveNum, lastSync, depth, pinState, OCR, offset, stage,
                   ticksLeft, ticks, resetDone>>
    /\ UNCHANGED <<config, cadenceHistory, runHistory>>
    /\ UNCHANGED <<reading, presses>>

\* the right-hand side of LFOn_TuningWord = POW2TO32 * (...)
DualFreqCompute ==
    /\ pc = "d.freq"
    /\ \E r \in ReadingsAt(i, pins) :
          /\ stage' = TuningWordOf(r)
          /\ reading' = IF reading[i] >= 0 THEN [reading EXCEPT ![i] = r]
                        ELSE reading
    /\ done' = 0
    /\ pc' = "d.freqStore"
    /\ UNCHANGED <<tickCounter, fourMilliCounter, accumulator, tuningWord,
                   waveform, waveNum, lastSync, depth, pinState, OCR, offset,
                   i, ticksLeft, ticks, resetDone>>
    /\ UNCHANGED <<config, cadenceHistory, runHistory>>
    /\ UNCHANGED <<presses>>

\* LFOn_TuningWord = ...: one of the four byte stores
DualTuningStoreByte ==
    /\ pc = "d.freqStore"
    /\ LET b == ByteAt(storeOrder, 4, done)
       IN  tuningWord' = [tuningWord EXCEPT ![i][b] = stage[b]]
    /\ StoreRun(i, accumulator[i])
    /\ done' = done + 1
    /\ pc' = IF done + 1 = 4 THEN "d.depth" ELSE pc
    /\ UNCHANGED <<tickCounter, fourMilliCounter, accumulator, waveform,
                   waveNum, lastSync, depth, pinState, OCR, offset, i, stage,
                   ticksLeft, ticks, resetDone>>
    /\ UNCHANGED <<config, cadenceHistory>>
    /\ UNCHANGED <<reading, presses>>

\* the right-hand side of LFOn_Depth = LFOn_DepthKnob.value(), widened to
\* unsigned long
DualDepthRead ==
    /\ pc = "d.depth"
    /\ \E r \in ReadingsAt(i, pins) : stage' = <<r % 256, r \div 256, 0, 0>>
    /\ done' = 0
    /\ pc' = "d.depthStore"
    /\ UNCHANGED <<tickCounter, fourMilliCounter, accumulator, tuningWord,
                   waveform, waveNum, lastSync, depth, pinState, OCR, offset,
                   i, ticksLeft, ticks, resetDone>>
    /\ UNCHANGED <<config, cadenceHistory, runHistory>>
    /\ UNCHANGED <<reading, presses>>

\* LFOn_Depth = ...: one of the four byte stores
DualDepthStoreByte ==
    /\ pc = "d.depthStore"
    /\ LET b == ByteAt(storeOrder, 4, done)
       IN  depth' = [depth EXCEPT ![i][b] = stage[b]]
    /\ done' = done + 1
    /\ IF done + 1 = 4
       THEN /\ pc' = IF i = 0 THEN "d.freq" ELSE "d.sync1"
            /\ i' = IF i = 0 THEN 1 ELSE 0
       ELSE UNCHANGED <<pc, i>>
    /\ UNCHANGED <<tickCounter, fourMilliCounter, accumulator, tuningWord,
                   waveform, waveNum, lastSync, pinState, OCR, offset, stage,
                   ticksLeft, ticks, resetDone>>
    /\ UNCHANGED <<config, cadenceHistory, runHistory>>
    /\ UNCHANGED <<reading, presses>>

DepthScaleBy256(sample, d) == ((sample * Lo16(d)) \div 256) % 256

\* (sample * LFOn_Depth) / 1024L, narrowed to the 8-bit compare register: bits
\* 10..17 of the 32-bit product
DepthScale(sample, d) ==
    (((sample * Lo16(d)) \div 1024) + 64 * ((sample * Hi16(d)) % 65536)) % 256

\* ISR(TIMER2_OVF_vect) of the two-channel sketch
DualTIMER2_OVF_vect ==
    /\ pc \in DualPcs
    /\ TickCount
    /\ accumulator' = [c \in Channels |->
                          IF c \in 0 .. 1
                          THEN Add32(accumulator[c], tuningWord[c])
                          ELSE accumulator[c]]
    /\ offset' = [c \in Channels |->
                     IF c \in 0 .. 1 THEN HighByte(accumulator'[c]) ELSE offset[c]]
    /\ \E g \in (IF \A c \in 0 .. 1 : IsTablePtr(waveform[c])
                 THEN {0} ELSE StrayBytes) :
          OCR' = [c \in Channels |->
                     IF c \in 0 .. 1
                     THEN DepthScale(Sample(waveform[c], offset'[c], g), depth[c])
                     ELSE OCR[c]]
    /\ resetDone' = {}
    /\ runK' = [c \in Channels |-> IF runK[c] >= 0 THEN runK[c] + 1 ELSE runK[c]]
    /\ seen' = [c \in Channels |->
                  IF runK[c] >= 0 THEN seen[c] \cup {offset'[c]} ELSE seen[c]]
    /\ UNCHANGED <<tuningWord, waveform, waveNum, lastSync, depth, pinState,
                   pc, i, stage, done, updates, updateGap, runInit>>
    /\ UNCHANGED config
    /\ UNCHANGED <<reading, presses>>

DualNext ==
    \/ DualTIMER2_OVF_vect
    \/ DualSync1Poll
    \/ DualStoreA
    \/ DualSync2Poll
    \/ DualStoreB
    \/ DualCadenceCheck
    \/ DualCadenceReset
    \/ DualWaveSwitch
    \/ DualWaveformStoreByte
    \/ DualFreqCompute
    \/ DualTuningStoreByte
    \/ DualDepthRead
    \/ DualDepthStoreByte

\* setup() of the two-channel sketch: lastSYNCn is the level opposite to the
\* trigger level
DualInit ==
    /\ tickCounter = 0
    /\ fourMilliCounter = 0
    /\ accumulator = [c \in Channels |-> Zero32]
    /\ tuningWord = [c \in Slots |-> Zero32]
    /\ waveform = [c \in Slots |-> TablePtr(0)]
    /\ waveNum = [c \in Slots |-> 0]
    /\ depth = [c \in 0 .. 1 |-> Zero32]
    /\ SYNC_TRIGGER = 1
    /\ SYNC_COMMON \in BOOLEAN
    /\ pins = BootPins
    /\ lastSync = [c \in Channels |-> IF c \in 0 .. 1 THEN 1 - SYNC_TRIGGER ELSE 0]
    /\ pinState = 0
    /\ OCR = [c \in Channels |-> 0]
    /\ offset = [c \in Channels |-> 0]
    /\ pc = "d.sync1"
    /\ i = 0
    /\ stage = Zero32
    /\ done = 0
    /\ storeOrder = "lsb"
    /\ ticksLeft = MaxTicksBoot
    /\ SettingsInit
    /\ HistoryInit
    /\ runInit = [c \in Channels |-> Zero32]
    /\ runK = [c \in Channels |-> -1]
    /\ seen = [c \in Channels |-> {}]

SpecDual == DualInit /\ [][DualNext]_vars

---------------------------------------------------------------------------
(* Runs from the middle of operation *)

\* some moment of steady-state operation at which loop() is at its top: the
\* accumulators and tuning words hold some values, all channels are on some
\* table, and the run-length history starts here
MidInit ==
    /\ tickCounter = 0
    /\ fourMilliCounter = 0
    /\ \E a \in AccSeeds : accumulator = [c \in Channels |-> a]
    /\ \E t \in TwSeeds : tuningWord = [c \in Slots |-> t]
    /\ \E k \in {0, 1, NUM_WAVES - 1} :
          /\ waveform = [c \in Slots |-> TablePtr(k)]
          /\ waveNum = [c \in Slots |-> k]
    /\ pinState = 0
    /\ OCR = [c \in Channels |-> 0]
    /\ offset = [c \in Channels |-> 0]
    /\ i = 0
    /\ stage = Zero32
    /\ done = 0
    /\ HistoryInit
    /\ runInit = accumulator
    /\ runK = [c \in Channels |-> 0]
    /\ seen = [c \in Channels |-> {}]

\* the sync inputs are quiet: loop() polls and writes nothing
InitTick ==
    /\ MidInit
    /\ pc = "sync"
    /\ depth = [c \in 0 .. 1 |-> Zero32]
    /\ SYNC_COMMON = FALSE
    /\ pins = {}
    /\ lastSync = [c \in Channels |-> 0]
    /\ storeOrder = "lsb"
    /\ SYNC_TRIGGER = 1
    /\ ticksLeft = MaxTicksRun
    /\ SettingsInit

NextTick ==
    \/ TIMER2_OVF_vect
    \/ SyncPoll
    \/ CadenceCheck

SpecTick == InitTick /\ [][NextTick]_vars

\* a moment of steady-state operation at which the control update is due:
\* every channel on table 0, the sync inputs quiet, the wave switch of
\* channel 0 the only one operated; the range starts at 0 Hz and every pot is
\* at 0, so the oscillators stand still; the tick histories are not kept and
\* the run goes on for as many ticks as it takes
InitWave ==
    /\ tickCounter = 0
    /\ fourMilliCounter = CadenceThreshold + 1
    /\ accumulator = [c \in Channels |-> Zero32]
    /\ freq = <<0, FreqMaxMilli>>
    /\ pots = {0}
    /\ tuningWord = [c \in Slots |-> Zero32]
    /\ waveform = [c \in Slots |-> TablePtr(0)]
    /\ \E g \in PastEndBytes :
          waveNum = [c \in Slots |-> IF c < NUM_LFO THEN 0 ELSE g]
    /\ pins = {}
    /\ lastSync = [c \in Channels |-> 0]
    /\ pinState = 0
    /\ OCR = [c \in Channels |-> WaveByte(0, 0)]
    /\ offset = [c \in Channels |-> 0]
    /\ pc = "sync"
    /\ i = 0
    /\ stage = Zero32
    /\ done = 0
    /\ storeOrder = "lsb"
    /\ SYNC_TRIGGER = 1
    /\ depth = [c \in 0 .. 1 |-> Zero32]
    /\ SYNC_COMMON = FALSE
    /\ keys = {0}
    /\ reading = [c \in Slots |-> -1]
    /\ presses = [c \in Slots |-> IF c \in keys THEN 0 ELSE -1]
    /\ ticksLeft = -1
    /\ ticks = -1
    /\ sinceSlow = -1
    /\ slowSince = -1
    /\ updates = -1
    /\ slowPeriod = 0
    /\ updateGap = 0
    /\ polled = TRUE
    /\ missed = FALSE
    /\ resetDone = {}
    /\ runInit = [c \in Channels |-> Zero32]
    /\ runK = [c \in Channels |-> -1]
    /\ seen = [c \in Channels |-> {}]

\* the tick when loop() keeps up with it: a pass of loop() takes far less
\* than the four milliseconds of a slow tick, so loop() has gone through its
\* cadence check since the last slow tick when the next one comes
TickInTime ==
    /\ TickWraps(tickCounter) => polled
    /\ TIMER2_OVF_vect

WaveRunNext ==
    \/ TickInTime
    \/ SyncPoll
    \/ CadenceCheck
    \/ CadenceReset
    \/ WaveSwitch
    \/ WaveformStoreByte
    \/ FreqCompute
    \/ TuningStoreByte

SpecWave == InitWave /\ [][WaveRunNext]_vars

\* where a pot that read r at the last update can be at this one: where it
\* was, one step away, or at either end of its travel
PotMoves(r) == {0, r - 1, r, r + 1, PotMax} \cap (0 .. PotMax)

\* a control update at the frequency control of channel 0: the range is any
\* of Ranges, the pot read r0 at the last update and tuningWord[0] is the
\* word stored then
InitTune ==
    /\ freq \in Ranges
    /\ \E r0 \in 0 .. PotMax :
          /\ reading = [c \in Slots |-> IF c = 0 THEN r0 ELSE -1]
          /\ pots = PotMoves(r0)
          /\ tuningWord = [c \in Slots |-> IF c = 0 THEN TuningTable[<<freq, r0>>]
                                           ELSE TuningTable[<<freq, 0>>]]
    /\ pins = {0}
    /\ keys = {}
    /\ presses = [c \in Slots |-> -1]
    /\ tickCounter = 0
    /\ fourMilliCounter = 0
    /\ accumulator = [c \in Channels |-> Zero32]
    /\ waveform = [c \in Slots |-> TablePtr(0)]
    /\ waveNum = [c \in Slots |-> 0]
    /\ lastSync = [c \in Channels |-> 0]
    /\ pinState = 0
    /\ OCR = [c \in Channels |-> 0]
    /\ offset = [c \in Channels |-> 0]
    /\ pc = "freq"
    /\ i = 0
    /\ stage = Zero32
    /\ done = 0
    /\ storeOrder = "lsb"
    /\ SYNC_TRIGGER = 1
    /\ ticksLeft = 0
    /\ depth = [c \in 0 .. 1 |-> Zero32]
    /\ SYNC_COMMON = FALSE
    /\ HistoryInit
    /\ runInit = [c \in Channels |-> Zero32]
    /\ runK = [c \in Channels |-> -1]
    /\ seen = [c \in Channels |-> {}]

NextTune ==
    \/ FreqCompute
    \/ TuningStoreByte

SpecTune == InitTune /\ [][NextTune]_vars

\* readings of a depth knob
DepthSeeds == {0, 1, 512, PotMax}

\* the two-channel sketch in the middle of a control update, at the
\* statement LFO1_Depth = LFO1_DepthKnob.value(): both depths hold a reading
\* stored earlier, and the depth knob of LFO1 is moved
InitDepth ==
    /\ MidInit
    /\ pc = "d.depth"
    /\ \E d \in DepthSeeds :
          depth = [c \in 0 .. 1 |-> <<d % 256, d \div 256, 0, 0>>]
    /\ SYNC_COMMON = FALSE
    /\ pins = {0}
    /\ lastSync = [c \in Channels |-> 0]
    /\ storeOrder = "lsb"
    /\ SYNC_TRIGGER = 1
    /\ ticksLeft = MaxTicksRun
    /\ freq = DefaultRange
    /\ pots = DepthSeeds
    /\ keys = {}
    /\ reading = [c \in Slots |-> -1]
    /\ presses = [c \in Slots |-> -1]

\* the tick against the reading and the storing of LFO1_Depth
NextDepth ==
    \/ DualTIMER2_OVF_vect
    \/ DualDepthRead
    \/ DualDepthStoreByte

SpecDepth == InitDepth /\ [][NextDepth]_vars

\* the channels whose sync inputs are driven in the runs that watch the
\* edge detector
SyncPins == {0, 1}

\* steady-state operation with loop() at its top, either trigger polarity,
\* the sync inputs of two channels driven, each last seen at either level
InitSync ==
    /\ MidInit
    /\ pc = "sync"
    /\ depth = [c \in 0 .. 1 |-> Zero32]
    /\ SYNC_COMMON = FALSE
    /\ pins = SyncPins
    /\ \E lv \in [SyncPins -> 0 .. 1] :
          lastSync = [c \in Channels |-> IF c \in SyncPins THEN lv[c] ELSE 0]
    /\ storeOrder = "lsb"
    /\ SYNC_TRIGGER \in 0 .. 1
    /\ ticksLeft = MaxTicksSync
    /\ SettingsInit

NextSync ==
    \/ TIMER2_OVF_vect
    \/ SyncPoll
    \/ SyncStoreByte
    \/ CadenceCheck

SpecSync == InitSync /\ [][NextSync]_vars

\* the four-channel sketch after setup(), with quiet sync inputs, for as
\* many ticks as it takes and without the tick histories
InitLive ==
    /\ tickCounter = 0
    /\ fourMilliCounter = 0
    /\ accumulator = [c \in Channels |-> Zero32]
    /\ tuningWord = [c \in Slots |-> Zero32]
    /\ waveform = [c \in Slots |-> TablePtr(0)]
    /\ \E g \in PastEndBytes :
          waveNum = [c \in Slots |-> IF c < NUM_LFO THEN 0 ELSE g]
    /\ pins = {}
    /\ lastSync = [c \in Channels |-> 0]
    /\ pinState = 0
    /\ OCR = [c \in Channels |-> 0]
    /\ offset = [c \in Channels |-> 0]
    /\ pc = "sync"
    /\ i = 0
    /\ stage = Zero32
    /\ done = 0
    /\ storeOrder = "lsb"
    /\ SYNC_TRIGGER = 1
    /\ depth = [c \in 0 .. 1 |-> Zero32]
    /\ SYNC_COMMON = FALSE
    /\ SettingsInit
    /\ ticksLeft = -1
    /\ ticks = -1
    /\ sinceSlow = -1
    /\ slowSince = -1
    /\ updates = -1
    /\ slowPeriod = 0
    /\ updateGap = 0
    /\ polled = TRUE
    /\ missed = FALSE
    /\ resetDone = {}
    /\ runInit = [c \in Channels |-> Zero32]
    /\ runK = [c \in Channels |-> -1]
    /\ seen = [c \in Channels |-> {}]

\* loop() up to the point where it finds the control update due: the sync
\* polls and the test of fourMilliCounter. A behaviour that never gets to
\* the update takes no other step of loop(), so it is a behaviour of the
\* whole sketch as well.
LoopPass ==
    \/ SyncPoll
    \/ CadenceCheck

NextLive ==
    \/ TIMER2_OVF_vect
    \/ LoopPass

\* the timer keeps interrupting and loop() keeps running: neither is held
\* up for ever, and nothing says how many ticks a pass of loop() may take
SpecLive ==
    /\ InitLive
    /\ [][NextLive]_vars
    /\ WF_vars(TIMER2_OVF_vect)
    /\ WF_vars(LoopPass)

---------------------------------------------------------------------------
(* Properties *)

IsTick == ticks' = ticks + 1

\* (init + k * t) mod 2^32, in two 16-bit halves
PhaseAfter(init, k, t) ==
    LET lo == Lo16(init) + k * Lo16(t)
        hi == (Hi16(init) + k * Hi16(t) + (lo \div 65536)) % 65536
    IN  <<lo % 256, (lo \div 256) % 256, hi % 256, hi \div 256>>

InUpdate == pc \in {"wave", "waveStore", "freq", "freqStore"}

\* C1: the reset-to-zero store of a channel's accumulator and the tick are
\* mutually exclusive: no tick runs after the first and before the last byte
\* of the store, and so the store leaves the accumulator zero
C1_ResetExcludesTick ==
    [][/\ IsTick => ~(pc = "syncStore" /\ done \in 1 .. 3)
       /\ (pc = "syncStore" /\ done = 3) => accumulator'[i] = Zero32]_vars

\* C2: after a sync edge has reset a channel, the channel's accumulator is
\* exactly 0 when the next tick finds it
C2_SyncResetExact ==
    \A c \in resetDone : accumulator[c] = Zero32

\* C3: over k ticks with no write by loop() to the channel's accumulator or
\* tuning word t, the accumulator is (initial + k*t) mod 2^32, and each of its
\* four bytes is a byte
C3_WraparoundLaw ==
    \A c \in Channels :
        runK[c] >= 0 =>
            /\ accumulator[c] = PhaseAfter(runInit[c], runK[c], tuningWord[c])
            /\ \A b \in 1 .. 4 : accumulator[c][b] \in Byte

C3_Witness ==
    /\ runK[0] = 256
    /\ tuningWord[0] = <<255, 255, 255, 255>>
    /\ runInit[0] = Zero32
    /\ accumulator[0] = <<0, 255, 255, 255>>

\* C4: on every tick every channel's waveform pointer is one of the library
\* tables, and the sample written to its output register is that table's
\* entry at bits 31..24 of the accumulator as incremented by this tick
C4_SampleFromTable ==
    [][IsTick =>
        \A c \in Channels :
            /\ IsTablePtr(waveform[c])
            /\ offset'[c] \in Byte
            /\ offset'[c] = Hi16(PhaseAfter(accumulator[c], 1, tuningWord[c])) \div 256
            /\ OCR'[c] = WaveByte(waveform[c][1], offset'[c])]_vars

\* C5: with the tuning word 2^24 and no write by loop(), each tick's offset is
\* the previous one plus 1 mod 256, the first 256 ticks sample 256 different
\* offsets (all of them), the sample is the table's entry at that offset, and
\* after 256 ticks the accumulator is back where it started
C5_OnePeriodIn256 ==
    \A c \in Channels :
        (runK[c] >= 1 /\ tuningWord[c] = OnePeriodIn256) =>
            /\ offset[c] = ((Hi16(runInit[c]) \div 256) + runK[c]) % 256
            /\ OCR[c] = WaveByte(waveNum[c], offset[c])
            /\ runK[c] <= 256 => Cardinality(seen[c]) = runK[c]
            /\ runK[c] = 256 => (seen[c] = Byte /\ accumulator[c] = runInit[c])

C5_Witness ==
    /\ runK[0] = 256
    /\ tuningWord[0] = OnePeriodIn256
    /\ waveNum[0] = 0
    /\ seen[0] = Byte

\* C6: with one sync input for both channels, once an edge has reset both
\* accumulators they are both 0 until the next tick
C6_CommonResetTogether ==
    (SYNC_COMMON /\ resetDone = {0, 1}) =>
        (accumulator[0] = Zero32 /\ accumulator[1] = Zero32)

\* C7: every per-channel access of the control update uses a channel index in
\* [0, NUM_LFO-1]
C7_UpdateIndexInRange ==
    InUpdate => i \in Channels

\* C8: the slow-tick counter increments exactly once every 125 ticks
C8_SlowTickEvery125 ==
    slowPeriod # 0 => slowPeriod = TickModulus

\* C9: when loop() has polled at least once per slow tick, the control update
\* runs after exactly 25 slow-tick increments
C9_UpdateEvery25 ==
    (updates > 0 /\ ~missed) => updateGap = CadenceThreshold

\* C10 as stated: both counters are zero at startup and no step of loop()
\* changes either of them
C10_LoopOnlyReads ==
    /\ tickCounter = 0 /\ fourMilliCounter = 0
    /\ [][~IsTick => /\ tickCounter' = tickCounter
                     /\ fourMilliCounter' = fourMilliCounter]_vars

\* C10 as amended: both counters are zero at startup; no step of loop()
\* changes the tick counter; the only change loop() makes to the slow-tick
\* counter is to store 0 in it at the cadence boundary, and every other change
\* of either counter is made by the tick
C10_LoopOnlyResets ==
    /\ tickCounter = 0 /\ fourMilliCounter = 0
    /\ [][~IsTick => /\ tickCounter' = tickCounter
                     /\ \/ fourMilliCounter' = fourMilliCounter
                        \/ /\ pc \in {"cadenceReset", "d.cadenceReset"}
                           /\ fourMilliCounter' = 0]_vars

C10_Witness ==
    /\ pc = "wave"
    /\ updates = 1
    /\ fourMilliCounter = 0
    /\ tickCounter > 0

\* the tuning words loop() publishes for a channel under the default range:
\* the start-up zero and the word of each reading its pot presents
PublishedWords ==
    {Zero32} \cup {TuningTable[<<DefaultRange, r>>] : r \in Readings}

\* C11: the tuning word and the wave pointer a tick reads for a channel are
\* each a value loop() published whole (the old or the new one), never a
\* mixture of the bytes of two values
C11_TickReadsPublished ==
    [][IsTick =>
        \A c \in Channels :
            /\ tuningWord[c] \in PublishedWords
            /\ \E k \in 0 .. NUM_WAVES - 1 : waveform[c] = TablePtr(k)]_vars

\* C19: in every state after setup every channel's wave index is in
\* 0 .. NUM_WAVES - 1 and its wave pointer is the table of that index
C19_PointerIsIndexedTable ==
    \A c \in Channels :
        /\ waveNum[c] \in 0 .. NUM_WAVES - 1
        /\ waveform[c] = TablePtr(waveNum[c])

\* C12: counting the press-edges of a channel's switch from wave index 0,
\* the index is always the count mod NUM_WAVES: each press-edge makes it
\* (previous + 1) mod NUM_WAVES, and after NUM_WAVES of them the channel is
\* on table 0 again
C12_WaveSelectCycles ==
    [][\A c \in Channels :
          presses'[c] >= 0 =>
              /\ waveNum'[c] = presses'[c] % NUM_WAVES
              /\ (pc' # "waveStore" \/ i' # c) => waveform'[c] = TablePtr(waveNum'[c])
              /\ presses'[c] # presses[c] =>
                    /\ presses'[c] = presses[c] + 1
                    /\ waveNum'[c] = (waveNum[c] + 1) % NUM_WAVES]_vars

C12_Witness ==
    /\ presses[0] = NUM_WAVES
    /\ waveNum[0] = 0
    /\ waveform[0] = TablePtr(0)
    /\ pc = "sync"

\* C13: a control update in which a channel's switch reports no new press
\* (not changed, or changed to released) goes on to the frequency control
\* with the channel's wave index and wave pointer as they were; the index
\* changes only with a press-edge, and the pointer only in the store that a
\* press-edge starts
C13_NoPressNoAdvance ==
    [][\A c \in Channels :
          presses[c] >= 0 =>
              /\ (pc = "wave" /\ i = c /\ pc' # pc /\ presses'[c] = presses[c]) =>
                    /\ pc' = "freq"
                    /\ waveNum'[c] = waveNum[c]
                    /\ waveform'[c] = waveform[c]
              /\ waveNum'[c] # waveNum[c] => presses'[c] # presses[c]
              /\ waveform'[c] # waveform[c] => (pc = "waveStore" /\ i = c)
              /\ (pc' = "waveStore" /\ pc # "waveStore" /\ i = c) =>
                    presses'[c] # presses[c]]_vars

C13_Witness ==
    /\ pc = "freq"
    /\ i = 0
    /\ pinState = 0
    /\ presses[0] = 1
    /\ waveNum[0] = 1
    /\ waveform[0] = TablePtr(1)

RECURSIVE RoundDiv(_, _, _, _)
\* the quotient of a long division carried on for k more binary places
RoundDiv(q, rem, d, k) ==
    IF k = 0 THEN q
    ELSE RoundDiv(2 * q + (IF 2 * rem >= d THEN 1 ELSE 0), (2 * rem) % d, d, k - 1)

\* round(2^32 * f / tick_rate) for a frequency of f mHz, as bytes
RoundedWord(f) ==
    Bytes32((RoundDiv(f \div ClockMilli, f % ClockMilli, ClockMilli, 33) + 1) \div 2)

\* C14: whatever the range, the tuning word computed from a reading of 0 is
\* round(2^32 * min_freq / tick_rate) and the one computed from a reading of
\* 1023 is round(2^32 * max_freq / tick_rate)
C14_EndpointsRounded ==
    (pc = "freqStore" /\ i \in Channels /\ reading[i] >= 0) =>
        /\ reading[i] = 0 => stage = RoundedWord(freq[1])
        /\ reading[i] = PotMax => stage = RoundedWord(freq[2])

\* a <= b for 32-bit words
Leq32(a, b) ==
    \/ Hi16(a) < Hi16(b)
    \/ Hi16(a) = Hi16(b) /\ Lo16(a) <= Lo16(b)

\* C15 as stated: with 0.1 Hz to 10 Hz and a reading of 1023 the computed
\* tuning word is 1,368,710 give or take 1
C15_AsStated ==
    (pc = "freqStore" /\ i \in Channels /\ freq = DefaultRange
        /\ reading[i] = PotMax) =>
        /\ Leq32(Bytes32(1368709), stage)
        /\ Leq32(stage, Bytes32(1368711))

\* C15 as amended: with 0.1 Hz to 10 Hz and a reading of 1023 the computed
\* tuning word is 1,369,020
C15_MaxWord ==
    (pc = "freqStore" /\ i \in Channels /\ freq = DefaultRange
        /\ reading[i] = PotMax) =>
        stage = Bytes32(1369020)

C15_Witness ==
    /\ pc = "freqStore"
    /\ i = 0
    /\ freq = DefaultRange
    /\ reading[0] = PotMax
    /\ stage = <<188, 227, 20, 0>>

\* C16: whatever the range, the tuning word computed from a reading that is
\* no lower than the last one is no lower than the word of the last one, and
\* the word of a reading that is no higher is no higher
C16_Monotonic ==
    [][(pc = "freq" /\ pc' = "freqStore" /\ i \in Channels /\ reading[i] >= 0) =>
          /\ tuningWord[i] = TuningWordOf(reading[i])
          /\ reading'[i] >= reading[i] => Leq32(tuningWord[i], stage')
          /\ reading'[i] <= reading[i] => Leq32(stage', tuningWord[i])]_vars

C16_Witness ==
    /\ pc = "freqStore"
    /\ i = 0
    /\ freq = DefaultRange
    /\ reading[0] = 512
    /\ tuningWord[0] = TuningWordOf(511)
    /\ stage = TuningWordOf(512)
    /\ stage # tuningWord[0]

\* the samples a tick of the two-channel sketch can read for channel c: the
\* table's entry at the new offset, or any byte when the pointer is torn
SamplesAt(c) ==
    IF IsTablePtr(waveform[c]) THEN {WaveByte(waveform[c][1], offset'[c])}
    ELSE Byte

\* C17: on every tick of the two-channel sketch the value written to each
\* output register is floor(sample * depth / 1024) for the sample and the
\* depth the tick reads, the depth is at most 1024, and the value is at
\* most 255
C17_DepthScaling ==
    [][(IsTick /\ pc \in DualPcs) =>
          \A c \in 0 .. 1 :
              /\ Hi16(depth[c]) = 0
              /\ Lo16(depth[c]) <= 1024
              /\ OCR'[c] <= 255
              /\ \E sample \in SamplesAt(c) :
                    OCR'[c] = (sample * Lo16(depth[c])) \div 1024]_vars

C17_Witness ==
    /\ pc = "d.depthStore"
    /\ i = 0
    /\ done = 1
    /\ ticks > 0
    /\ depth[0] = <<0, 3, 0, 0>>
    /\ depth[1] = <<255, 3, 0, 0>>
    /\ OCR[0] = 191
    /\ OCR[1] = 254

\* C18: every pass of loop() polls the sync inputs of channels 0 .. 3 in
\* order before its cadence check, whatever the slow-tick counter holds; a
\* poll that samples the level last seen changes nothing; one that samples
\* the other level records it and starts the reset of that channel exactly
\* when the level is the trigger level, so a reset needs the last level to
\* have been the other one; and a step of loop() changes no accumulator but
\* the one of the channel whose reset store it is in
C18_EdgeDetector ==
    [][/\ (pc = "sync" /\ ~IsTick) =>
              IF pinState' = lastSync[i]
              THEN /\ lastSync' = lastSync
                   /\ accumulator' = accumulator
                   /\ pc' # "syncStore"
              ELSE /\ lastSync' = [lastSync EXCEPT ![i] = pinState']
                   /\ accumulator' = accumulator
                   /\ (pc' = "syncStore") = (pinState' = SYNC_TRIGGER)
                   /\ pc' = "syncStore" => i' = i
       /\ (pc # "syncStore" /\ pc' = "syncStore") =>
              /\ pc = "sync"
              /\ lastSync[i] # SYNC_TRIGGER
              /\ lastSync'[i] = SYNC_TRIGGER
       /\ ~IsTick =>
              \A c \in Channels :
                  accumulator'[c] # accumulator[c] => (pc = "syncStore" /\ i = c)
       /\ (pc # "cadence" /\ pc' = "cadence") =>
              (pc \in {"sync", "syncStore"} /\ i = NUM_LFO - 1)
       /\ (pc = "sync" /\ pc' = "sync" /\ i' # i) => i' = i + 1
       /\ (pc = "cadence" /\ ~IsTick) =>
              (i' = 0 /\ pc' \in {"sync", "cadenceReset"})]_vars

C18_Witness ==
    /\ pc = "sync"
    /\ i = 1
    /\ ticks > 0
    /\ SYNC_TRIGGER = 0
    /\ lastSync[0] = 0
    /\ 0 \in resetDone
    /\ accumulator[0] = Zero32
    /\ accumulator[1] # Zero32

==========================================================================
